---- MODULE Spec2Model ----
(***************************************************************************)
(* The ingestion pipeline of src/src/paper_processor.py over the           *)
(* repositories of src/src/database/repositories.py.                       *)
(*                                                                         *)
(* The relational store is modelled as the four tables the schema manager  *)
(* creates.  `db` holds the committed rows, `tx` the rows as the open      *)
(* connection sees them inside its transaction.  A statement that fails on *)
(* the server leaves the transaction in the failed state (`aborted`):      *)
(* every later statement fails and commit() ends the transaction without   *)
(* applying it.  A statement that fails before it reaches the server (the  *)
(* driver cannot adapt a value) leaves the transaction as it was.          *)
(***************************************************************************)
EXTENDS Integers, Sequences, FiniteSets, TLC

\* ---------------------------------------------------------------- bounds
MaxRuns == 2        \* runs of process_paper in one behaviour
MaxItems == 3       \* entities one extraction call returns at most
MaxRetries == 5     \* largest max_retries of a DatabaseConnection
MaxFaults == 1      \* statements of one behaviour that fail for an outside reason

\* ---------------------------------------------------------------- inputs
Files == {1, 2}

\* The documents a run may read: two files with different texts.
Documents == {[file |-> 1, content |-> 1], [file |-> 2, content |-> 2]}
NoDoi == ""
Dois == {"10.1/x"}
Titles == {"A", "a"}

\* The lengths of the list an extraction call returns: nothing, or several.
ItemCounts == {0, MaxItems}

Kinds == {"text_sections", "tables", "images"}
AllKinds == Kinds \cup {"metadata"}

\* ---------------------------------------------------------------- identifiers
\* generate_64bit_id: a digest of (source_file, content prefix), deterministic.
generate_64bit_id(content, source_file) == source_file * 10 + content

\* PaperMetadata.generate_id
generate_id(content, source_file) == generate_64bit_id(content, source_file)

\* generate_section_id / generate_table_id / generate_image_id: a digest of
\* (position, title, content prefix); the paper id is not an input.
KindTag(kind) ==
  CASE kind = "text_sections" -> 100
    [] kind = "tables" -> 200
    [] kind = "images" -> 300

generate_entity_id(kind, content, number) ==
  KindTag(kind) + generate_64bit_id(content, number)

\* ---------------------------------------------------------------- rows
EmptyStore ==
  [paper_metadata |-> {}, text_sections |-> {}, tables |-> {}, images |-> {}]

PaperRow(m) ==
  [id |-> m.id, doi |-> m.doi, title |-> m.title, source_file |-> m.source_file]

NoMetadata == [id |-> 0, doi |-> NoDoi, title |-> "", source_file |-> 0]

EntityRow(kind, content, paper_id, number) ==
  [id |-> generate_entity_id(kind, content, number),
   paper_id |-> paper_id, number |-> number, content |-> content]

RowsOf(store, kind, pid) == {r \in store[kind] : r.paper_id = pid}

\* a DOI lookup that finds no stored paper
FindByDoiNothing(store, doi) == {}

\* ---------------------------------------------------------------- SQL statements
\* SELECT id, title, doi FROM paper_metadata WHERE doi = %s
find_by_doi(store, doi) == {r \in store.paper_metadata : r.doi = doi}

\* SELECT id, title, doi FROM paper_metadata WHERE title = %s  (exact comparison)
find_by_title(store, title) == {r \in store.paper_metadata : r.title = title}

\* DELETE FROM <kind> WHERE paper_id = %s
delete_by_paper_id(store, kind, pid) ==
  [store EXCEPT ![kind] = {r \in @ : r.paper_id # pid}]

\* The foreign key of the three child tables: paper_id names a stored paper.
ForeignKeyOk(store, row) == \E p \in store.paper_metadata : p.id = row.paper_id

\* INSERT INTO paper_metadata: the primary key must be free.
PaperInsertOk(store, m) == \A p \in store.paper_metadata : p.id # m.id

PaperInsert(store, m) ==
  [store EXCEPT !.paper_metadata = @ \cup {PaperRow(m)}]

\* UPDATE paper_metadata SET ... WHERE id = %(id)s; cursor.rowcount > 0
PaperUpdateOk(store, m) == \E p \in store.paper_metadata : p.id = m.id

\* an overwrite that removes the stored row and writes none
PaperUpdateDropping(store, m) ==
  [store EXCEPT !.paper_metadata = {p \in @ : p.id # m.id}]

PaperUpdate(store, m) ==
  [store EXCEPT !.paper_metadata = {p \in @ : p.id # m.id} \cup {PaperRow(m)}]

\* INSERT INTO text_sections ... ON CONFLICT (id) DO UPDATE SET paper_id = ...
SectionSaveOk(store, row) == ForeignKeyOk(store, row)

SectionSave(store, row) ==
  [store EXCEPT !.text_sections = {r \in @ : r.id # row.id} \cup {row}]

\* INSERT INTO table_data: PRIMARY KEY (id), UNIQUE (paper_id, table_number)
TableSaveOk(store, row) ==
  /\ ForeignKeyOk(store, row)
  /\ \A r \in store.tables :
       r.id # row.id /\ ~(r.paper_id = row.paper_id /\ r.number = row.number)

TableSave(store, row) == [store EXCEPT !.tables = @ \cup {row}]

\* ImageRepository.save_images: an upsert on the primary key; the table keeps
\* UNIQUE (paper_id, image_number).
ImageSaveOk(store, row) ==
  /\ ForeignKeyOk(store, row)
  /\ \A r \in store.images :
       r.id = row.id \/ ~(r.paper_id = row.paper_id /\ r.number = row.number)

ImageSave(store, row) ==
  [store EXCEPT !.images = {r \in @ : r.id # row.id} \cup {row}]

SaveOk(kind, store, row) ==
  CASE kind = "text_sections" -> SectionSaveOk(store, row)
    [] kind = "tables" -> TableSaveOk(store, row)
    [] kind = "images" -> ImageSaveOk(store, row)

Save(kind, store, row) ==
  CASE kind = "text_sections" -> SectionSave(store, row)
    [] kind = "tables" -> TableSave(store, row)
    [] kind = "images" -> ImageSave(store, row)

\* ---------------------------------------------------------------- state
VARIABLES
  db,                 \* committed rows of the four tables
  tx,                 \* rows as seen inside the connection's transaction
  connection,         \* db_connection.connection: "none" or "open"
  aborted,            \* the transaction is in the failed state
  pc,                 \* position of process_paper
  k,                  \* index of the kind being cleaned / persisted
  i,                  \* index of the entity being saved
  doc,                \* the file read: [file, content]
  paper_metadata,     \* the PaperMetadata object of the run
  generated_id,       \* the id generate_id computed from the content read
  exists,             \* first component of _check_paper_exists
  overwrite_choices,  \* second component of _check_paper_exists
  choice,             \* what the operator answered at the prompt (-1: no prompt)
  extracted,          \* text_sections, tables, images lists of the run
  result,             \* return value of process_paper: "none", "true", "false"
  log,                \* the operations the run issued, in order
  pre,                \* the committed rows when the run started
  faults,             \* statements that failed for an outside reason so far
  runs,               \* runs started
  call,               \* a call of an identifier generator: arguments and value
  reply,              \* the answer of the extraction service being converted
  config,             \* max_retries and retry_delay of the DatabaseConnection
  retry_count         \* failed attempts of the running connect()

vars ==
  <<db, tx, connection, aborted, pc, k, i, doc, paper_metadata, generated_id,
    exists, overwrite_choices, choice, extracted, result, log, pre, faults, runs,
    call, reply, config, retry_count>>

\* DatabaseConnection.__init__ without arguments and environment: five
\* attempts, two seconds between them.
DefaultConfig == [max_retries |-> 5, retry_delay |-> 2]

\* No identifier generator is being called.
NoCall ==
  [fn |-> "none", content |-> "", salt |-> "", source_file |-> "",
   paper_id |-> <<>>, element_type |-> "", sequence |-> 0, value |-> <<>>,
   v |-> [neg |-> FALSE, limbs |-> <<0, 0, 0, 0, 0>>], raised |-> FALSE,
   done |-> FALSE]

\* ---------------------------------------------------------------- operator prompt
KeyboardInterrupt == 0

MenuChoices == 1 .. 8

\* a cancelled prompt answered as "overwrite everything"
OverwriteChoicesOnCancel(c) ==
  [metadata |-> c \in {KeyboardInterrupt, 8},
   text_sections |-> c \in {KeyboardInterrupt, 2, 5, 6, 8},
   tables |-> c \in {KeyboardInterrupt, 3, 5, 7, 8},
   images |-> c \in {KeyboardInterrupt, 4, 6, 7, 8}]

\* a menu whose entries are read one line too low
OverwriteChoicesShifted(c) ==
  IF c = KeyboardInterrupt
    THEN [metadata |-> FALSE, text_sections |-> FALSE, tables |-> FALSE, images |-> FALSE]
    ELSE [metadata |-> c = 7,
          text_sections |-> c \in {1, 4, 5, 7},
          tables |-> c \in {2, 4, 6, 7},
          images |-> c \in {3, 5, 6, 7}]

\* The dictionaries returned for "1" .. "8" and on KeyboardInterrupt.
OverwriteChoicesFor(c) ==
  IF c = KeyboardInterrupt
    THEN [metadata |-> FALSE, text_sections |-> FALSE, tables |-> FALSE, images |-> FALSE]
    ELSE [metadata |-> c = 8,
          text_sections |-> c \in {2, 5, 6, 8},
          tables |-> c \in {3, 5, 7, 8},
          images |-> c \in {4, 6, 7, 8}]

\* The dictionary returned when no stored paper matches.
ProcessEverything ==
  [metadata |-> TRUE, text_sections |-> TRUE, tables |-> TRUE, images |-> TRUE]

\* a decision that always counts as an overwrite
AnyChoiceAlways(oc) == TRUE

\* any(overwrite_choices.values())
AnyChoice(oc) == \E kind \in AllKinds : oc[kind]

\* ---------------------------------------------------------------- duplicate lookup
\* "if doi:" -- the DOI lookup is made
DoiLookup(doi) == doi # NoDoi

\* "if not existing_paper and title:" -- the title lookup is made
TitleLookup(store, doi, title) ==
  /\ ~(DoiLookup(doi) /\ find_by_doi(store, doi) # {})
  /\ title # ""

\* a lookup that asks for the title first
ExistingPaperTitleFirst(store, doi, title) ==
  IF title # "" /\ find_by_title(store, title) # {}
    THEN find_by_title(store, title)
    ELSE IF DoiLookup(doi) THEN find_by_doi(store, doi) ELSE {}

\* The rows fetchone() may hand to _check_paper_exists as existing_paper.
ExistingPaper(store, doi, title) ==
  IF DoiLookup(doi) /\ find_by_doi(store, doi) # {}
    THEN find_by_doi(store, doi)
    ELSE IF TitleLookup(store, doi, title)
           THEN find_by_title(store, title)
           ELSE {}

\* the extracted id kept after a match
ResolvedIdKept(existing_id, extracted_id) == extracted_id

\* "paper_metadata.id = existing_paper['id']"
ResolvedId(existing_id, extracted_id) == existing_id

\* ---------------------------------------------------------------- order of the steps
CleanOrder == <<"text_sections", "images", "tables">>

\* images persisted before the paper's tables
PersistOrderSwapped == <<"text_sections", "images", "tables">>

PersistOrder == <<"text_sections", "tables", "images">>

\* every kind processed whatever the operator chose
NeededAlways(ex, oc, kind) == TRUE

\* "if not exists or overwrite_choices.get(kind, False)"
Needed(ex, oc, kind) == ~ex \/ oc[kind]

\* ---------------------------------------------------------------- log
Entry(op, kind, pid, number, ok) ==
  [op |-> op, kind |-> kind, pid |-> pid, number |-> number, ok |-> ok]

WriteOps == {"delete", "insert", "update"}
ReadOps == {"select_doi", "select_title"}
DbOps == WriteOps \cup ReadOps \cup {"connect", "commit", "rollback"}

LogIndex == 1 .. Len(log)

\* ---------------------------------------------------------------- statements
\* How a statement may end: "none" (as the rows decide), "client" (raised
\* before it reached the server), "server" (raised by the server).
FaultModes ==
  IF aborted \/ faults >= MaxFaults THEN {"none"} ELSE {"none", "client", "server"}

Succeeds(f, natural) == ~aborted /\ f = "none" /\ natural

AbortedAfter(f, natural) == aborted \/ f = "server" \/ (f = "none" /\ ~natural)

FaultsAfter(f) == IF f = "none" THEN faults ELSE faults + 1

EmptyExtracted == [kind \in Kinds |-> <<>>]

\* ---------------------------------------------------------------- initial state
Init ==
  /\ db = EmptyStore
  /\ tx = EmptyStore
  /\ connection = "none"
  /\ aborted = FALSE
  /\ pc = "idle"
  /\ k = 0
  /\ i = 0
  /\ doc = [file |-> 0, content |-> 0]
  /\ paper_metadata = NoMetadata
  /\ generated_id = 0
  /\ exists = FALSE
  /\ overwrite_choices = ProcessEverything
  /\ choice = -1
  /\ extracted = EmptyExtracted
  /\ result = "none"
  /\ log = <<>>
  /\ pre = EmptyStore
  /\ faults = 0
  /\ runs = 0
  /\ call = NoCall
  /\ reply = <<>>
  /\ config = DefaultConfig
  /\ retry_count = 0

\* ---------------------------------------------------------------- process_paper
\* A new call of process_paper: the locals of the previous call are gone.
Begin(d) ==
  /\ pc \in {"idle", "done"}
  /\ runs < MaxRuns
  /\ runs' = runs + 1
  /\ doc' = d
  /\ pre' = db
  /\ paper_metadata' = NoMetadata
  /\ generated_id' = 0
  /\ exists' = FALSE
  /\ overwrite_choices' = ProcessEverything
  /\ choice' = -1
  /\ extracted' = EmptyExtracted
  /\ k' = 0
  /\ i' = 0
  /\ UNCHANGED <<db, tx, connection, aborted, faults, call, reply, config, retry_count>>

\* Step 1: the file is missing, or it cannot be read, or it is empty.
LoadFails ==
  /\ \E f \in Files : Begin([file |-> f, content |-> 0])
  /\ log' = <<Entry("load", "file", 0, 0, FALSE)>>
  /\ result' = "false"
  /\ pc' = "finally"

\* Step 1: the content is read.
Load ==
  /\ \E d \in Documents : Begin(d)
  /\ log' = <<Entry("load", "file", 0, 0, TRUE)>>
  /\ result' = "none"
  /\ pc' = "extract_metadata"

\* a run that goes on to connect without metadata
AfterExtractMetadataAlways(found) == "connect"

\* "if not paper_metadata: return False", else on to Step 3
AfterExtractMetadata(found) == IF found THEN "connect" ELSE "finally"

\* Step 2: extract_metadata returns None.
ExtractMetadataFails ==
  /\ pc = "extract_metadata"
  /\ log' = Append(log, Entry("extract", "metadata", 0, 0, FALSE))
  /\ result' = "false"
  /\ pc' = AfterExtractMetadata(FALSE)
  /\ UNCHANGED <<db, tx, connection, aborted, k, i, doc, paper_metadata,
                 generated_id, exists, overwrite_choices, choice, extracted,
                 pre, faults, runs, call, reply, config, retry_count>>

\* "PaperMetadata(**metadata_dict)": the id is the one in the service's
\* answer, which was given the generated id in the prompt and may echo it or
\* answer another integer.
ResponseIds(generated) == {generated, generated + 1}

\* Step 2: extract_metadata returns a PaperMetadata object.
ExtractMetadata ==
  /\ pc = "extract_metadata"
  /\ generated_id' = generate_id(doc.content, doc.file)
  /\ \E doi \in Dois \cup {NoDoi}, title \in Titles,
        id \in ResponseIds(generated_id') :
       /\ paper_metadata' =
            [id |-> id, doi |-> doi, title |-> title, source_file |-> doc.file]
       /\ log' = Append(log, Entry("extract", "metadata", id, 0, TRUE))
  /\ pc' = AfterExtractMetadata(TRUE)
  /\ UNCHANGED <<db, tx, connection, aborted, k, i, doc, exists,
                 overwrite_choices, choice, extracted, result, pre, faults, runs, call, reply, config, retry_count>>

\* Step 3: db_connection.connect() returns a connection.
Connect ==
  /\ pc = "connect"
  /\ connection' = "open"
  /\ tx' = db
  /\ aborted' = FALSE
  /\ log' = Append(log, Entry("connect", "db", 0, 0, TRUE))
  /\ pc' = "setup_schema"
  /\ UNCHANGED <<db, k, i, doc, paper_metadata, generated_id, exists,
                 overwrite_choices, choice, extracted, result, pre, faults, runs, call, reply, config, retry_count>>

\* Step 3: db_connection.connect() raises after its retries.
ConnectFails ==
  /\ pc = "connect"
  /\ faults < MaxFaults
  /\ faults' = faults + 1
  /\ log' = Append(log, Entry("connect", "db", 0, 0, FALSE))
  /\ pc' = "except"
  /\ UNCHANGED <<db, tx, connection, aborted, k, i, doc, paper_metadata,
                 generated_id, exists, overwrite_choices, choice, extracted,
                 result, pre, runs, call, reply, config, retry_count>>

\* Step 4: setup_complete_schema creates what is missing and commits; no row
\* of the four tables changes.
SetupSchema ==
  /\ pc = "setup_schema"
  /\ pc' = "check_exists"
  /\ UNCHANGED <<db, tx, connection, aborted, k, i, doc, paper_metadata,
                 generated_id, exists, overwrite_choices, choice, extracted,
                 result, log, pre, faults, runs, call, reply, config, retry_count>>

\* Step 4: setup_complete_schema rolls back and raises.
SetupSchemaFails ==
  /\ pc = "setup_schema"
  /\ faults < MaxFaults
  /\ faults' = faults + 1
  /\ pc' = "except"
  /\ UNCHANGED <<db, tx, connection, aborted, k, i, doc, paper_metadata,
                 generated_id, exists, overwrite_choices, choice, extracted,
                 result, log, pre, runs, call, reply, config, retry_count>>

\* The lookups _check_paper_exists makes, as log entries.
LookupEntries(store, doi, title) ==
  (IF DoiLookup(doi)
     THEN <<Entry("select_doi", "metadata", 0, 0, TRUE)>> ELSE <<>>)
  \o (IF TitleLookup(store, doi, title)
        THEN <<Entry("select_title", "metadata", 0, 0, TRUE)>> ELSE <<>>)

\* Step 5: no stored paper matches.
CheckPaperExistsNotFound ==
  /\ pc = "check_exists"
  /\ ExistingPaper(tx, paper_metadata.doi, paper_metadata.title) = {}
  /\ exists' = FALSE
  /\ overwrite_choices' = ProcessEverything
  /\ log' = log \o LookupEntries(tx, paper_metadata.doi, paper_metadata.title)
  /\ pc' = "save_metadata"
  /\ UNCHANGED <<db, tx, connection, aborted, k, i, doc, paper_metadata,
                 generated_id, choice, extracted, result, pre, faults, runs, call, reply, config, retry_count>>

\* Step 5: a stored paper matches and the operator answers the prompt; with
\* nothing to overwrite process_paper returns True at once.
CheckPaperExistsFound ==
  /\ pc = "check_exists"
  /\ \E e \in ExistingPaper(tx, paper_metadata.doi, paper_metadata.title),
        c \in MenuChoices \cup {KeyboardInterrupt} :
       /\ paper_metadata' =
            [paper_metadata EXCEPT !.id = ResolvedId(e.id, paper_metadata.id)]
       /\ choice' = c
       /\ overwrite_choices' = OverwriteChoicesFor(c)
       /\ IF AnyChoice(OverwriteChoicesFor(c))
            THEN /\ pc' = "clean"
                 /\ k' = 1
                 /\ result' = result
            ELSE /\ pc' = "finally"
                 /\ k' = k
                 /\ result' = "true"
  /\ exists' = TRUE
  /\ log' = log \o LookupEntries(tx, paper_metadata.doi, paper_metadata.title)
  /\ UNCHANGED <<db, tx, connection, aborted, i, doc, generated_id, extracted,
                 pre, faults, runs, call, reply, config, retry_count>>

\* Step 5: find_by_doi or find_by_title raises.
CheckPaperExistsFails ==
  /\ pc = "check_exists"
  /\ faults < MaxFaults
  /\ faults' = faults + 1
  /\ aborted' = TRUE
  /\ log' = Append(log, Entry(IF DoiLookup(paper_metadata.doi)
                                THEN "select_doi" ELSE "select_title",
                              "metadata", 0, 0, FALSE))
  /\ pc' = "except"
  /\ UNCHANGED <<db, tx, connection, k, i, doc, paper_metadata, generated_id,
                 exists, overwrite_choices, choice, extracted, result, pre, runs, call, reply, config, retry_count>>

\* After the k-th delete of Step 6.
AfterClean ==
  IF k < Len(CleanOrder)
    THEN pc' = "clean" /\ k' = k + 1
    ELSE pc' = "save_metadata" /\ k' = 0

\* Step 6: the rows of a kind chosen for overwrite are deleted; the
\* repository catches a failure and process_paper ignores the returned flag.
DeleteExisting ==
  /\ pc = "clean"
  /\ overwrite_choices[CleanOrder[k]]
  /\ \E f \in FaultModes :
       LET kind == CleanOrder[k]
           ok == Succeeds(f, TRUE)
       IN  /\ tx' = IF ok THEN delete_by_paper_id(tx, kind, paper_metadata.id)
                          ELSE tx
           /\ aborted' = AbortedAfter(f, TRUE)
           /\ faults' = FaultsAfter(f)
           /\ log' = Append(log, Entry("delete", kind, paper_metadata.id, 0, ok))
  /\ AfterClean
  /\ UNCHANGED <<db, connection, i, doc, paper_metadata, generated_id, exists,
                 overwrite_choices, choice, extracted, result, pre, runs, call, reply, config, retry_count>>

\* Step 6: a kind not chosen for overwrite is left alone.
KeepExisting ==
  /\ pc = "clean"
  /\ ~overwrite_choices[CleanOrder[k]]
  /\ AfterClean
  /\ UNCHANGED <<db, tx, connection, aborted, i, doc, paper_metadata,
                 generated_id, exists, overwrite_choices, choice, extracted,
                 result, log, pre, faults, runs, call, reply, config, retry_count>>

\* Step 7: _save_paper_metadata inserts (new paper) or updates (matched
\* paper); on failure process_paper returns False.
SavePaperMetadata ==
  /\ pc = "save_metadata"
  /\ Needed(exists, overwrite_choices, "metadata")
  /\ \E f \in FaultModes :
       LET natural == IF exists THEN PaperUpdateOk(tx, paper_metadata)
                                ELSE PaperInsertOk(tx, paper_metadata)
           ok == Succeeds(f, natural)
       IN  /\ tx' = IF ~ok THEN tx
                    ELSE IF exists THEN PaperUpdate(tx, paper_metadata)
                                   ELSE PaperInsert(tx, paper_metadata)
           /\ aborted' = AbortedAfter(f, natural)
           /\ faults' = FaultsAfter(f)
           /\ log' = Append(log, Entry(IF exists THEN "update" ELSE "insert",
                                       "metadata", paper_metadata.id, 0, ok))
           /\ IF ok
                THEN pc' = "extract" /\ k' = 1 /\ result' = result
                ELSE pc' = "finally" /\ k' = k /\ result' = "false"
  /\ UNCHANGED <<db, connection, i, doc, paper_metadata, generated_id, exists,
                 overwrite_choices, choice, extracted, pre, runs, call, reply, config, retry_count>>

\* Step 7: the stored metadata is kept.
SkipPaperMetadata ==
  /\ pc = "save_metadata"
  /\ ~Needed(exists, overwrite_choices, "metadata")
  /\ pc' = "extract"
  /\ k' = 1
  /\ UNCHANGED <<db, tx, connection, aborted, i, doc, paper_metadata,
                 generated_id, exists, overwrite_choices, choice, extracted,
                 result, log, pre, faults, runs, call, reply, config, retry_count>>

\* After the k-th kind of Steps 8 to 13.
AfterKind ==
  IF k < Len(PersistOrder)
    THEN pc' = "extract" /\ k' = k + 1 /\ i' = 0
    ELSE pc' = "commit" /\ k' = 0 /\ i' = 0

\* an empty list treated as an exception
AfterExtractRaising(list) == IF list # <<>> THEN "save" ELSE "except"

\* "if text_sections: ... save_all(...)  else: print(warning)", and the same
\* for tables and images: an empty list is skipped, not an error.
AfterExtract(list) == IF list # <<>> THEN "save" ELSE "next"

\* Steps 8, 10, 12: the extractor returns its list; it returns the empty
\* list when the service fails or finds nothing.
Extract ==
  /\ pc = "extract"
  /\ Needed(exists, overwrite_choices, PersistOrder[k])
  /\ \E n \in ItemCounts :
       LET kind == PersistOrder[k]
           list == [j \in 1 .. n |->
                      EntityRow(kind, doc.content, paper_metadata.id, j)]
       IN  /\ extracted' = [extracted EXCEPT ![kind] = list]
           /\ log' = Append(log, Entry("extract", kind, paper_metadata.id, n, n > 0))
           /\ CASE AfterExtract(list) = "save" -> pc' = "save" /\ k' = k /\ i' = 1
                [] AfterExtract(list) = "next" -> AfterKind
                [] OTHER -> pc' = AfterExtract(list) /\ k' = k /\ i' = i
  /\ UNCHANGED <<db, tx, connection, aborted, doc, paper_metadata, generated_id,
                 exists, overwrite_choices, choice, result, pre, faults, runs, call, reply, config, retry_count>>

\* Steps 8, 10, 12: the kind is kept, its list is empty.
SkipKind ==
  /\ pc = "extract"
  /\ ~Needed(exists, overwrite_choices, PersistOrder[k])
  /\ extracted' = [extracted EXCEPT ![PersistOrder[k]] = <<>>]
  /\ AfterKind
  /\ UNCHANGED <<db, tx, connection, aborted, doc, paper_metadata, generated_id,
                 exists, overwrite_choices, choice, result, log, pre, faults, runs, call, reply, config, retry_count>>

\* Steps 9, 11, 13: one entity of the list is saved; the repository catches
\* a failure, the loop goes on and process_paper only prints a warning.
SaveEntity ==
  /\ pc = "save"
  /\ \E f \in FaultModes :
       LET kind == PersistOrder[k]
           row == extracted[kind][i]
           natural == SaveOk(kind, tx, row)
           ok == Succeeds(f, natural)
       IN  /\ tx' = IF ok THEN Save(kind, tx, row) ELSE tx
           /\ aborted' = AbortedAfter(f, natural)
           /\ faults' = FaultsAfter(f)
           /\ log' = Append(log, Entry("insert", kind, row.paper_id, row.number, ok))
  /\ IF i < Len(extracted[PersistOrder[k]])
       THEN pc' = "save" /\ k' = k /\ i' = i + 1
       ELSE AfterKind
  /\ UNCHANGED <<db, connection, doc, paper_metadata, generated_id, exists,
                 overwrite_choices, choice, extracted, result, pre, runs, call, reply, config, retry_count>>

\* "{len(text_sections)} sections processed", and the same for tables and
\* images: the counts printed after the commit.
ReportedCount(kind) == Len(extracted[kind])

\* What commit() leaves committed: the transaction's rows, unless the
\* transaction is in the failed state, which the server ends by rolling back.
Committed(store, work, failed) == IF failed THEN store ELSE work

\* "self.db_connection.connection.commit()" and "return True"
Commit ==
  /\ pc = "commit"
  /\ db' = Committed(db, tx, aborted)
  /\ tx' = db'
  /\ aborted' = FALSE
  /\ log' = Append(log, Entry("commit", "db", 0, 0, TRUE))
  /\ result' = "true"
  /\ pc' = "finally"
  /\ UNCHANGED <<connection, k, i, doc, paper_metadata, generated_id, exists,
                 overwrite_choices, choice, extracted, pre, faults, runs, call, reply, config, retry_count>>

\* "except Exception": rollback when a connection is open, return False.
Except ==
  /\ pc = "except"
  /\ IF connection = "open"
       THEN /\ tx' = db
            /\ aborted' = FALSE
            /\ log' = Append(log, Entry("rollback", "db", 0, 0, TRUE))
       ELSE UNCHANGED <<tx, aborted, log>>
  /\ result' = "false"
  /\ pc' = "finally"
  /\ UNCHANGED <<db, connection, k, i, doc, paper_metadata, generated_id,
                 exists, overwrite_choices, choice, extracted, pre, faults, runs, call, reply, config, retry_count>>

\* close() that would apply the open transaction
ClosedCommitting(store, work) == work

\* What close() leaves committed: an open transaction is discarded.
Closed(store, work) == store

\* disconnect() that leaves self.connection as it is
DisconnectKeeping(conn) == conn

\* DatabaseConnection.disconnect: "if self.connection: self.connection.close();
\* self.connection = None".
disconnect(conn) == IF conn = "open" THEN "none" ELSE conn

\* "finally: self.close_connections()" -> DatabaseConnection.disconnect
CloseConnections ==
  /\ pc = "finally"
  /\ db' = IF connection = "open" THEN Closed(db, tx) ELSE db
  /\ tx' = db'
  /\ connection' = disconnect(connection)
  /\ aborted' = FALSE
  /\ pc' = "done"
  /\ UNCHANGED <<k, i, doc, paper_metadata, generated_id, exists,
                 overwrite_choices, choice, extracted, result, log, pre,
                 faults, runs, call, reply, config, retry_count>>

Next ==
  \/ LoadFails
  \/ Load
  \/ ExtractMetadataFails
  \/ ExtractMetadata
  \/ Connect
  \/ ConnectFails
  \/ SetupSchema
  \/ SetupSchemaFails
  \/ CheckPaperExistsNotFound
  \/ CheckPaperExistsFound
  \/ CheckPaperExistsFails
  \/ DeleteExisting
  \/ KeepExisting
  \/ SavePaperMetadata
  \/ SkipPaperMetadata
  \/ Extract
  \/ SkipKind
  \/ SaveEntity
  \/ Commit
  \/ Except
  \/ CloseConnections

Spec == Init /\ [][Next]_vars

\* ---------------------------------------------------------------- stores left by earlier runs
\* Earlier runs that found no match and failed nowhere: file 1 gave paper P
\* (a DOI, title "A", sections and tables), file 2 gave paper Q (no DOI,
\* title "a", sections and images).  Spec reaches both stores.
SeedRows(kind, content, file) ==
  {EntityRow(kind, content, generate_id(content, file), j) : j \in 1 .. MaxItems}

SeedStore ==
  [paper_metadata |->
     {[id |-> generate_id(1, 1), doi |-> "10.1/x", title |-> "A", source_file |-> 1],
      [id |-> generate_id(2, 2), doi |-> NoDoi, title |-> "a", source_file |-> 2]},
   text_sections |-> SeedRows("text_sections", 1, 1) \cup SeedRows("text_sections", 2, 2),
   tables |-> SeedRows("tables", 1, 1),
   images |-> SeedRows("images", 2, 2)]

SeedStoreOne ==
  [paper_metadata |->
     {[id |-> generate_id(1, 1), doi |-> "10.1/x", title |-> "A", source_file |-> 1]},
   text_sections |-> SeedRows("text_sections", 1, 1),
   tables |-> SeedRows("tables", 1, 1),
   images |-> {}]

SeedStores == {SeedStore, SeedStoreOne}

InitSeeded ==
  /\ db \in SeedStores
  /\ tx = db
  /\ connection = "none"
  /\ aborted = FALSE
  /\ pc = "idle"
  /\ k = 0
  /\ i = 0
  /\ doc = [file |-> 0, content |-> 0]
  /\ paper_metadata = NoMetadata
  /\ generated_id = 0
  /\ exists = FALSE
  /\ overwrite_choices = ProcessEverything
  /\ choice = -1
  /\ extracted = EmptyExtracted
  /\ result = "none"
  /\ log = <<>>
  /\ pre = db
  /\ faults = 0
  /\ runs = MaxRuns - 1
  /\ call = NoCall
  /\ reply = <<>>
  /\ config = DefaultConfig
  /\ retry_count = 0

SpecSeeded == InitSeeded /\ [][Next]_vars

\* ---------------------------------------------------------------- process_images_only
\* SELECT ... FROM paper_metadata WHERE source_file = %s
find_by_source_file(store, file) ==
  {r \in store.paper_metadata : r.source_file = file}

ImagesOnly == [metadata |-> FALSE, text_sections |-> FALSE, tables |-> FALSE,
               images |-> TRUE]

KeepAll == [metadata |-> FALSE, text_sections |-> FALSE, tables |-> FALSE,
            images |-> FALSE]

\* Step 1: the file is missing, or it cannot be read, or it is empty.
ImagesOnlyLoadFails ==
  /\ \E f \in Files : Begin([file |-> f, content |-> 0])
  /\ log' = <<Entry("load_images_only", "file", 0, 0, FALSE)>>
  /\ result' = "false"
  /\ pc' = "io_finally"

\* Step 1: the content is read.
ImagesOnlyLoad ==
  /\ \E d \in Documents : Begin(d)
  /\ log' = <<Entry("load_images_only", "file", 0, 0, TRUE)>>
  /\ result' = "none"
  /\ pc' = "io_connect"

\* Step 2: db_connection.connect() returns a connection.
ImagesOnlyConnect ==
  /\ pc = "io_connect"
  /\ connection' = "open"
  /\ tx' = db
  /\ aborted' = FALSE
  /\ log' = Append(log, Entry("connect", "db", 0, 0, TRUE))
  /\ pc' = "io_setup_schema"
  /\ UNCHANGED <<db, k, i, doc, paper_metadata, generated_id, exists,
                 overwrite_choices, choice, extracted, result, pre, faults, runs, call, reply, config, retry_count>>

\* Step 2: db_connection.connect() raises after its retries.
ImagesOnlyConnectFails ==
  /\ pc = "io_connect"
  /\ faults < MaxFaults
  /\ faults' = faults + 1
  /\ log' = Append(log, Entry("connect", "db", 0, 0, FALSE))
  /\ pc' = "io_except"
  /\ UNCHANGED <<db, tx, connection, aborted, k, i, doc, paper_metadata,
                 generated_id, exists, overwrite_choices, choice, extracted,
                 result, pre, runs, call, reply, config, retry_count>>

\* Step 3: setup_complete_schema creates what is missing and commits.
ImagesOnlySetupSchema ==
  /\ pc = "io_setup_schema"
  /\ pc' = "io_find"
  /\ UNCHANGED <<db, tx, connection, aborted, k, i, doc, paper_metadata,
                 generated_id, exists, overwrite_choices, choice, extracted,
                 result, log, pre, faults, runs, call, reply, config, retry_count>>

\* Step 3: setup_complete_schema rolls back and raises.
ImagesOnlySetupSchemaFails ==
  /\ pc = "io_setup_schema"
  /\ faults < MaxFaults
  /\ faults' = faults + 1
  /\ pc' = "io_except"
  /\ UNCHANGED <<db, tx, connection, aborted, k, i, doc, paper_metadata,
                 generated_id, exists, overwrite_choices, choice, extracted,
                 result, log, pre, runs, call, reply, config, retry_count>>

\* Step 4: no stored paper came from this file: "return False".
ImagesOnlyNotFound ==
  /\ pc = "io_find"
  /\ find_by_source_file(tx, doc.file) = {}
  /\ log' = Append(log, Entry("select_source_file", "metadata", 0, 0, TRUE))
  /\ result' = "false"
  /\ pc' = "io_finally"
  /\ UNCHANGED <<db, tx, connection, aborted, k, i, doc, paper_metadata,
                 generated_id, exists, overwrite_choices, choice, extracted,
                 pre, faults, runs, call, reply, config, retry_count>>

\* Step 4: find_by_source_file raises.
ImagesOnlyFindFails ==
  /\ pc = "io_find"
  /\ faults < MaxFaults
  /\ faults' = faults + 1
  /\ aborted' = TRUE
  /\ log' = Append(log, Entry("select_source_file", "metadata", 0, 0, FALSE))
  /\ pc' = "io_except"
  /\ UNCHANGED <<db, tx, connection, k, i, doc, paper_metadata, generated_id,
                 exists, overwrite_choices, choice, extracted, result, pre, runs, call, reply, config, retry_count>>

\* Steps 4 and 5: a stored paper came from this file; with images stored
\* for it the operator is asked, without them the run goes on to extract.
ImagesOnlyFound ==
  /\ pc = "io_find"
  /\ \E e \in find_by_source_file(tx, doc.file) :
       /\ paper_metadata' = e
       /\ pc' = IF RowsOf(tx, "images", e.id) # {} THEN "io_prompt" ELSE "io_extract"
  /\ exists' = TRUE
  /\ overwrite_choices' = ImagesOnly
  /\ log' = Append(log, Entry("select_source_file", "metadata", 0, 0, TRUE))
  /\ UNCHANGED <<db, tx, connection, aborted, k, i, doc, generated_id, choice,
                 extracted, result, pre, faults, runs, call, reply, config, retry_count>>

\* Step 5: "y" or "yes": the stored images of the paper are deleted.
ImagesOnlyOverwrite ==
  /\ pc = "io_prompt"
  /\ \E f \in FaultModes :
       LET ok == Succeeds(f, TRUE)
       IN  /\ tx' = IF ok THEN delete_by_paper_id(tx, "images", paper_metadata.id)
                          ELSE tx
           /\ aborted' = AbortedAfter(f, TRUE)
           /\ faults' = FaultsAfter(f)
           /\ log' = Append(log, Entry("delete", "images", paper_metadata.id, 0, ok))
  /\ pc' = "io_extract"
  /\ UNCHANGED <<db, connection, k, i, doc, paper_metadata, generated_id, exists,
                 overwrite_choices, choice, extracted, result, pre, runs, call, reply, config, retry_count>>

\* Step 5: any other answer: "return True", the stored images are kept.
ImagesOnlyKeep ==
  /\ pc = "io_prompt"
  /\ overwrite_choices' = KeepAll
  /\ result' = "true"
  /\ pc' = "io_finally"
  /\ UNCHANGED <<db, tx, connection, aborted, k, i, doc, paper_metadata,
                 generated_id, exists, choice, extracted, log, pre, faults, runs, call, reply, config, retry_count>>

\* Step 5: KeyboardInterrupt at input(); "except Exception" does not catch
\* it, the finally clause runs and the interrupt leaves process_images_only.
ImagesOnlyInterrupted ==
  /\ pc = "io_prompt"
  /\ choice' = KeyboardInterrupt
  /\ overwrite_choices' = KeepAll
  /\ result' = "raised"
  /\ pc' = "io_finally"
  /\ UNCHANGED <<db, tx, connection, aborted, k, i, doc, paper_metadata,
                 generated_id, exists, extracted, log, pre, faults, runs, call, reply, config, retry_count>>

\* Step 6: extract_images returns its list; "if images: ... else: warning".
ImagesOnlyExtract ==
  /\ pc = "io_extract"
  /\ \E n \in ItemCounts :
       LET list == [j \in 1 .. n |->
                      EntityRow("images", doc.content, paper_metadata.id, j)]
       IN  /\ extracted' = [extracted EXCEPT !.images = list]
           /\ log' = Append(log, Entry("extract", "images", paper_metadata.id, n, n > 0))
           /\ IF list # <<>> THEN pc' = "io_save" /\ i' = 1
                             ELSE pc' = "io_commit" /\ i' = 0
  /\ UNCHANGED <<db, tx, connection, aborted, k, doc, paper_metadata, generated_id,
                 exists, overwrite_choices, choice, result, pre, faults, runs, call, reply, config, retry_count>>

\* "if not images_success: return False", else on to the commit
\* process_images_only going on to the commit whatever save_images returned
AfterSaveImagesCommitting(images_success) == "io_commit"

AfterSaveImages(images_success) == IF images_success THEN "io_commit" ELSE "io_finally"

\* Step 7: save_images saves one image of the list; after the last one
\* process_images_only returns False unless every image was saved.
ImagesOnlySave ==
  /\ pc = "io_save"
  /\ \E f \in FaultModes :
       LET row == extracted.images[i]
           natural == ImageSaveOk(tx, row)
           ok == Succeeds(f, natural)
       IN  /\ tx' = IF ok THEN ImageSave(tx, row) ELSE tx
           /\ aborted' = AbortedAfter(f, natural)
           /\ faults' = FaultsAfter(f)
           /\ log' = Append(log, Entry("insert", "images", row.paper_id, row.number, ok))
  /\ IF i < Len(extracted.images)
       THEN pc' = "io_save" /\ i' = i + 1 /\ result' = result
       ELSE LET images_success ==
                  \A j \in 1 .. Len(log') :
                    (log'[j].op = "insert" /\ log'[j].kind = "images") => log'[j].ok
            IN  /\ pc' = AfterSaveImages(images_success)
                /\ i' = 0
                /\ result' = IF images_success THEN result ELSE "false"
  /\ UNCHANGED <<db, connection, k, doc, paper_metadata, generated_id, exists,
                 overwrite_choices, choice, extracted, pre, runs, call, reply, config, retry_count>>

\* "self.db_connection.connection.commit()" and "return True"
ImagesOnlyCommit ==
  /\ pc = "io_commit"
  /\ db' = Committed(db, tx, aborted)
  /\ tx' = db'
  /\ aborted' = FALSE
  /\ log' = Append(log, Entry("commit", "db", 0, 0, TRUE))
  /\ result' = "true"
  /\ pc' = "io_finally"
  /\ UNCHANGED <<connection, k, i, doc, paper_metadata, generated_id, exists,
                 overwrite_choices, choice, extracted, pre, faults, runs, call, reply, config, retry_count>>

\* "except Exception": rollback when a connection is open, return False.
ImagesOnlyExcept ==
  /\ pc = "io_except"
  /\ IF connection = "open"
       THEN /\ tx' = db
            /\ aborted' = FALSE
            /\ log' = Append(log, Entry("rollback", "db", 0, 0, TRUE))
       ELSE UNCHANGED <<tx, aborted, log>>
  /\ result' = "false"
  /\ pc' = "io_finally"
  /\ UNCHANGED <<db, connection, k, i, doc, paper_metadata, generated_id,
                 exists, overwrite_choices, choice, extracted, pre, faults, runs, call, reply, config, retry_count>>

\* "finally: self.close_connections()"
ImagesOnlyCloseConnections ==
  /\ pc = "io_finally"
  /\ db' = IF connection = "open" THEN Closed(db, tx) ELSE db
  /\ tx' = db'
  /\ connection' = disconnect(connection)
  /\ aborted' = FALSE
  /\ pc' = "done"
  /\ UNCHANGED <<k, i, doc, paper_metadata, generated_id, exists,
                 overwrite_choices, choice, extracted, result, log, pre,
                 faults, runs, call, reply, config, retry_count>>

\* Runs of process_paper and of process_images_only, in any order.
NextAll ==
  \/ Next
  \/ ImagesOnlyLoadFails
  \/ ImagesOnlyLoad
  \/ ImagesOnlyConnect
  \/ ImagesOnlyConnectFails
  \/ ImagesOnlySetupSchema
  \/ ImagesOnlySetupSchemaFails
  \/ ImagesOnlyNotFound
  \/ ImagesOnlyFindFails
  \/ ImagesOnlyFound
  \/ ImagesOnlyOverwrite
  \/ ImagesOnlyKeep
  \/ ImagesOnlyInterrupted
  \/ ImagesOnlyExtract
  \/ ImagesOnlySave
  \/ ImagesOnlyCommit
  \/ ImagesOnlyExcept
  \/ ImagesOnlyCloseConnections

SpecAll == Init /\ [][NextAll]_vars

\* ---------------------------------------------------------------- batch saves
\* TextSectionsRepository.save_all and PaperProcessor._save_all_tables, called
\* with a connection open, as process_paper calls them.
BatchKinds == {"text_sections", "tables"}

\* "success_count": the saves of a kind that returned True.
SavedCount(kind) ==
  Cardinality({j \in 1 .. Len(log) :
                 log[j].op = "insert" /\ log[j].kind = kind /\ log[j].ok})

\* a batch that reports success as soon as one entity was saved
BatchResultAny(count, list) == count >= 1

\* "success_count == len(text_sections)", "return success_count == len(tables)"
BatchResult(count, list) == count = Len(list)

\* a loop that stops at the first entity that was not saved
LoopGoesOnIfSaved(saved, index, list) == saved /\ index < Len(list)

\* "for section in text_sections:" -- the loop goes on to the next entity
\* whatever the save returned
LoopGoesOn(saved, index, list) == index < Len(list)

\* The lists a caller may pass: the entities of a document under a paper id.
BatchLists(kind, d, pid) ==
  {[j \in 1 .. n |-> EntityRow(kind, d.content, pid, j)] : n \in 0 .. MaxItems}

InitBatch ==
  /\ db \in SeedStores
  /\ tx = db
  /\ connection = "open"
  /\ aborted = FALSE
  /\ pc = "save_all"
  /\ k \in {j \in 1 .. Len(PersistOrder) : PersistOrder[j] \in BatchKinds}
  /\ i = 0
  /\ doc \in Documents
  /\ paper_metadata \in
       {[NoMetadata EXCEPT !.id = pid] :
          pid \in ResponseIds(generate_id(doc.content, doc.file))}
  /\ generated_id = generate_id(doc.content, doc.file)
  /\ exists = FALSE
  /\ overwrite_choices = ProcessEverything
  /\ choice = -1
  /\ extracted \in
       {[EmptyExtracted EXCEPT ![PersistOrder[k]] = list] :
          list \in BatchLists(PersistOrder[k], doc, paper_metadata.id)}
  /\ result = "none"
  /\ log = <<>>
  /\ pre = db
  /\ faults = 0
  /\ runs = MaxRuns
  /\ call = NoCall
  /\ reply = <<>>
  /\ config = DefaultConfig
  /\ retry_count = 0

\* "if not text_sections: return True" and, for tables, the loop over an
\* empty list followed by "return success_count == len(tables)".
SaveAllStart ==
  /\ pc = "save_all"
  /\ IF extracted[PersistOrder[k]] = <<>>
       THEN /\ result' = IF BatchResult(0, <<>>) THEN "true" ELSE "false"
            /\ pc' = "save_all_done"
            /\ i' = i
       ELSE /\ result' = result
            /\ pc' = "save_all_loop"
            /\ i' = 1
  /\ UNCHANGED <<db, tx, connection, aborted, k, doc, paper_metadata,
                 generated_id, exists, overwrite_choices, choice, extracted,
                 log, pre, faults, runs, call, reply, config, retry_count>>

\* One pass of the loop: the entity is saved, the flag is counted, and after
\* the last entity the batch returns.
SaveAllSave ==
  /\ pc = "save_all_loop"
  /\ \E f \in FaultModes :
       LET kind == PersistOrder[k]
           row == extracted[kind][i]
           natural == SaveOk(kind, tx, row)
           ok == Succeeds(f, natural)
       IN  /\ tx' = IF ok THEN Save(kind, tx, row) ELSE tx
           /\ aborted' = AbortedAfter(f, natural)
           /\ faults' = FaultsAfter(f)
           /\ log' = Append(log, Entry("insert", kind, row.paper_id, row.number, ok))
           /\ IF LoopGoesOn(ok, i, extracted[kind])
                THEN pc' = "save_all_loop" /\ i' = i + 1 /\ result' = result
                ELSE /\ pc' = "save_all_done"
                     /\ i' = i
                     /\ result' =
                          IF BatchResult(SavedCount(kind) + (IF ok THEN 1 ELSE 0),
                                         extracted[kind])
                            THEN "true" ELSE "false"
  /\ UNCHANGED <<db, connection, k, doc, paper_metadata, generated_id, exists,
                 overwrite_choices, choice, extracted, pre, runs, call, reply, config, retry_count>>

NextBatch ==
  \/ SaveAllStart
  \/ SaveAllSave

SpecBatch == InitBatch /\ [][NextBatch]_vars

\* ---------------------------------------------------------------- identifier generators
\* A 64-bit value is the tuple of its four 16-bit limbs, the most significant
\* first: <<l1, l2, l3, l4>> stands for l1 * 2^48 + l2 * 2^32 + l3 * 2^16 + l4.

RECURSIVE Repeat(_, _)
\* The string of n copies of c.
Repeat(c, n) ==
  IF n = 0 THEN ""
  ELSE IF n % 2 = 0 THEN LET h == Repeat(c, n \div 2) IN h \o h
  ELSE c \o Repeat(c, n - 1)

\* A content of 1000 characters; one more character makes it longer than the
\* prefix the paper ID is derived from.
LongContent == Repeat("a", 1000)

IdContents == {"a", "b", LongContent \o "x", LongContent \o "y"}

IdSalts == {"", "s"}

IdSourceFiles == {"1.md", "2.md"}

\* hashlib.sha256(seed.encode()).digest()[:8]: the first eight bytes of the
\* SHA-256 digest of the strings the calls below hash.
Sha256First8(seed) ==
  CASE seed = "a" -> <<202, 151, 129, 18, 202, 27, 189, 202>>
    [] seed = "b" -> <<62, 35, 232, 22, 0, 57, 89, 74>>
    [] seed = "as" -> <<244, 191, 159, 127, 203, 237, 171, 160>>
    [] seed = "bs" -> <<129, 133, 213, 228, 195, 64, 191, 19>>
    [] seed = LongContent \o "x" -> <<204, 254, 146, 130, 225, 49, 121, 50>>
    [] seed = LongContent \o "y" -> <<195, 188, 185, 157, 131, 84, 249, 72>>
    [] seed = LongContent \o "xs" -> <<148, 37, 155, 39, 8, 186, 5, 190>>
    [] seed = LongContent \o "ys" -> <<183, 93, 131, 251, 31, 133, 112, 15>>
    [] seed = "1.md:a" -> <<166, 129, 142, 160, 30, 158, 217, 158>>
    [] seed = "1.md:b" -> <<158, 17, 109, 112, 137, 157, 161, 133>>
    [] seed = "2.md:a" -> <<75, 195, 102, 131, 141, 179, 106, 197>>
    [] seed = "2.md:b" -> <<242, 46, 49, 39, 1, 228, 210, 36>>
    [] seed = "1.md:" \o LongContent -> <<66, 136, 251, 121, 114, 250, 241, 224>>
    [] seed = "2.md:" \o LongContent -> <<249, 180, 13, 24, 195, 206, 145, 175>>
    [] seed = "1.md:" \o LongContent \o "x" -> <<175, 127, 249, 246, 175, 194, 21, 179>>
    [] seed = "1.md:" \o LongContent \o "y" -> <<164, 9, 186, 9, 89, 144, 22, 177>>
    [] seed = "2.md:" \o LongContent \o "x" -> <<186, 114, 105, 68, 166, 154, 156, 210>>
    [] seed = "2.md:" \o LongContent \o "y" -> <<230, 167, 221, 11, 177, 178, 27, 61>>

\* int.from_bytes(bytes, byteorder='big') of eight bytes.
FromBytes(bytes) == [j \in 1 .. 4 |-> bytes[2 * j - 1] * 256 + bytes[2 * j]]

\* hexdigest()[:16]: the sixteen hexadecimal digits of the first eight bytes.
HexDigits(bytes) ==
  [j \in 1 .. 16 |-> IF j % 2 = 1 THEN bytes[(j + 1) \div 2] \div 16
                                  ELSE bytes[j \div 2] % 16]

\* int(hash_hex[:16], 16).
FromHex(digits) ==
  [j \in 1 .. 4 |-> digits[4 * j - 3] * 4096 + digits[4 * j - 2] * 256
                    + digits[4 * j - 1] * 16 + digits[4 * j]]

\* The whole content, not cut.
WholeContent(content) == content

\* content[:1000].
Prefix1000(content) ==
  IF Len(content) <= 1000 THEN content ELSE SubSeq(content, 1, 1000)

\* generate_content_id(content, salt): the eight digest bytes as an unsigned
\* integer, no bit cleared.
generate_content_id(content, salt) ==
  LET content_with_salt == content \o salt
  IN  FromBytes(Sha256First8(content_with_salt))

\* generate_64bit_id(content, source_file) of models/paper_metadata.py on
\* strings: hash_64bit & 0x7FFFFFFFFFFFFFFF clears bit 63.
generate_64bit_id_of(content, source_file) ==
  LET combined_input == source_file \o ":" \o Prefix1000(content)
      hash_64bit == FromHex(HexDigits(Sha256First8(combined_input)))
  IN  <<hash_64bit[1] % 32768, hash_64bit[2], hash_64bit[3], hash_64bit[4]>>

TypeCodesClashing ==
  [section |-> 1, table |-> 1, image |-> 3, reference |-> 4, citation |-> 5,
   author |-> 6, statistic |-> 7, finding |-> 8]

TYPE_CODES ==
  [section |-> 1, table |-> 2, image |-> 3, reference |-> 4, citation |-> 5,
   author |-> 6, statistic |-> 7, finding |-> 8]

\* The eight known element types and two the table does not know.
ElementTypes == DOMAIN TYPE_CODES \cup {"chart", "equation"}

\* generate_hierarchical_id(paper_id, element_type, sequence): the low 32 bits
\* of paper_id, then the type code, then the low 16 bits of sequence.
generate_hierarchical_id(paper_id, element_type, sequence) ==
  LET paper_id_32 == <<paper_id[3], paper_id[4]>>
      type_code == IF element_type \in DOMAIN TYPE_CODES
                     THEN TYPE_CODES[element_type] ELSE 65535
      sequence_16 == sequence % 65536
  IN  <<paper_id_32[1], paper_id_32[2], type_code, sequence_16>>

\* Paper IDs handed to generate_hierarchical_id: small ones, one with bit 31
\* set, one above 2^32, and the ID of a paper.
IdPaperIds ==
  {<<0, 0, 0, 1>>, <<0, 0, 0, 2>>, <<0, 0, 32768, 1>>, <<0, 1, 0, 1>>,
   generate_64bit_id_of("a", "2.md")}

IdSequences == {0, 1, 65535, 65536, 65537}

\* A Python integer handed to the id validator: its sign and the five 16-bit
\* limbs of its magnitude, the first one holding bits 64 to 79.
\* The values are -1, 0, 1, 2^63 - 1, 2^63, 2^64 - 1 and 2^64.
IdValues ==
  {[neg |-> TRUE, limbs |-> <<0, 0, 0, 0, 1>>]}
  \cup {[neg |-> FALSE, limbs |-> l] :
          l \in {<<0, 0, 0, 0, 0>>, <<0, 0, 0, 0, 1>>,
                 <<0, 32767, 65535, 65535, 65535>>, <<0, 32768, 0, 0, 0>>,
                 <<0, 65535, 65535, 65535, 65535>>, <<1, 0, 0, 0, 0>>}}

\* validate_id_size raises: "if v < 0 or v >= (1 << 64)".
Rejected(v) == v.neg \/ v.limbs[1] > 0

\* The value fits the BIGINT column "id BIGINT PRIMARY KEY" as a value of
\* [0, 2^63).
FitsBigint(v) == ~v.neg /\ v.limbs[1] = 0 /\ v.limbs[2] < 32768

IdCalls ==
  {[NoCall EXCEPT !.fn = "generate_content_id", !.content = c, !.salt = s] :
     c \in IdContents, s \in IdSalts}
  \cup
  {[NoCall EXCEPT !.fn = "generate_64bit_id", !.content = c, !.source_file = f] :
     c \in IdContents, f \in IdSourceFiles}
  \cup
  {[NoCall EXCEPT !.fn = "generate_hierarchical_id", !.paper_id = p,
                  !.element_type = t, !.sequence = n] :
     p \in IdPaperIds, t \in ElementTypes, n \in IdSequences}
  \cup
  {[NoCall EXCEPT !.fn = "validate_id_size", !.v = v] : v \in IdValues}

InitIds ==
  /\ db = EmptyStore
  /\ tx = EmptyStore
  /\ connection = "none"
  /\ aborted = FALSE
  /\ pc = "idle"
  /\ k = 0
  /\ i = 0
  /\ doc = [file |-> 0, content |-> 0]
  /\ paper_metadata = NoMetadata
  /\ generated_id = 0
  /\ exists = FALSE
  /\ overwrite_choices = ProcessEverything
  /\ choice = -1
  /\ extracted = EmptyExtracted
  /\ result = "none"
  /\ log = <<>>
  /\ pre = EmptyStore
  /\ faults = 0
  /\ runs = 0
  /\ call \in IdCalls
  /\ reply = <<>>
  /\ config = DefaultConfig
  /\ retry_count = 0

\* The call returns: the value is all that changes.
Returns(value) ==
  /\ call' = [call EXCEPT !.value = value, !.done = TRUE]
  /\ UNCHANGED <<db, tx, connection, aborted, pc, k, i, doc, paper_metadata,
                 generated_id, exists, overwrite_choices, choice, extracted,
                 result, log, pre, faults, runs, reply, config, retry_count>>

CallContentId ==
  /\ call.fn = "generate_content_id"
  /\ ~call.done
  /\ Returns(generate_content_id(call.content, call.salt))

Call64bitId ==
  /\ call.fn = "generate_64bit_id"
  /\ ~call.done
  /\ Returns(generate_64bit_id_of(call.content, call.source_file))

CallHierarchicalId ==
  /\ call.fn = "generate_hierarchical_id"
  /\ ~call.done
  /\ Returns(generate_hierarchical_id(call.paper_id, call.element_type,
                                      call.sequence))

\* The validator of PaperMetadata.id raises ValueError or returns v.
CallValidateIdSize ==
  /\ call.fn = "validate_id_size"
  /\ ~call.done
  /\ call' = [call EXCEPT !.raised = Rejected(call.v), !.done = TRUE]
  /\ UNCHANGED <<db, tx, connection, aborted, pc, k, i, doc, paper_metadata,
                 generated_id, exists, overwrite_choices, choice, extracted,
                 result, log, pre, faults, runs, reply, config, retry_count>>

NextIds ==
  \/ CallContentId
  \/ Call64bitId
  \/ CallHierarchicalId
  \/ CallValidateIdSize

SpecIds == InitIds /\ [][NextIds]_vars

\* ---------------------------------------------------------------- extract_text_sections
RECURSIVE strip(_)
\* str.strip() for strings whose only whitespace is the space.
strip(text) ==
  IF Len(text) = 0 THEN text
  ELSE IF SubSeq(text, 1, 1) = " " THEN strip(SubSeq(text, 2, Len(text)))
  ELSE IF SubSeq(text, Len(text), Len(text)) = " "
    THEN strip(SubSeq(text, 1, Len(text) - 1))
  ELSE text

\* The entries of the JSON array the service answers with: objects with a
\* content, and an entry that is not an object.
SectionData ==
  {[dict |-> TRUE, content |-> c] : c \in {"", " ", "text", " text "}}
  \cup {[dict |-> FALSE, content |-> ""]}

RECURSIVE ListsUpTo(_, _)
\* The sequences of at most n elements of a set.
ListsUpTo(set, n) ==
  IF n = 0 THEN {<<>>}
  ELSE LET shorter == ListsUpTo(set, n - 1)
       IN  shorter \cup {Append(l, e) : l \in {x \in shorter : Len(x) = n - 1},
                                        e \in set}

\* What _ai_extract_and_analyze_sections returns: the parsed array, or the
\* empty list after any failure.
SectionsData == ListsUpTo(SectionData, MaxItems)

InitSections ==
  /\ db = EmptyStore
  /\ tx = EmptyStore
  /\ connection = "none"
  /\ aborted = FALSE
  /\ pc = "extract_text_sections"
  /\ k = 0
  /\ i = 0
  /\ doc \in Documents
  /\ paper_metadata = [NoMetadata EXCEPT !.id = generate_id(doc.content, doc.file)]
  /\ generated_id = generate_id(doc.content, doc.file)
  /\ exists = FALSE
  /\ overwrite_choices = ProcessEverything
  /\ choice = -1
  /\ extracted = EmptyExtracted
  /\ result = "none"
  /\ log = <<>>
  /\ pre = EmptyStore
  /\ faults = 0
  /\ runs = 0
  /\ call = NoCall
  /\ reply \in SectionsData
  /\ config = DefaultConfig
  /\ retry_count = 0

\* "if content.strip()": only entries with content become sections.
Included(section_data) == strip(section_data.content) # ""

\* "if not sections_data: return []".
ExtractSectionsEmpty ==
  /\ pc = "extract_text_sections"
  /\ reply = <<>>
  /\ pc' = "sections_returned"
  /\ UNCHANGED <<db, tx, connection, aborted, k, i, doc, paper_metadata,
                 generated_id, exists, overwrite_choices, choice, extracted,
                 result, log, pre, faults, runs, call, reply, config, retry_count>>

\* "text_sections = []" and the start of "for i, section_data in
\* enumerate(sections_data, 1)".
ExtractSectionsStart ==
  /\ pc = "extract_text_sections"
  /\ reply # <<>>
  /\ pc' = "sections_loop"
  /\ i' = 1
  /\ extracted' = [extracted EXCEPT !["text_sections"] = <<>>]
  /\ UNCHANGED <<db, tx, connection, aborted, k, doc, paper_metadata,
                 generated_id, exists, overwrite_choices, choice, result, log,
                 pre, faults, runs, call, reply, config, retry_count>>

\* One turn of the loop: a section numbered i is appended when the entry has
\* content.
ExtractSectionsStep ==
  /\ pc = "sections_loop"
  /\ i <= Len(reply)
  /\ reply[i].dict
  /\ extracted' =
       IF Included(reply[i])
         THEN [extracted EXCEPT !["text_sections"] =
                 Append(@, EntityRow("text_sections", doc.content,
                                     paper_metadata.id, i))]
         ELSE extracted
  /\ i' = i + 1
  /\ UNCHANGED <<db, tx, connection, aborted, pc, k, doc, paper_metadata,
                 generated_id, exists, overwrite_choices, choice, result, log,
                 pre, faults, runs, call, reply, config, retry_count>>

\* section_data.get raises for an entry that is not an object: "except
\* Exception" returns the empty list.
ExtractSectionsRaises ==
  /\ pc = "sections_loop"
  /\ i <= Len(reply)
  /\ ~reply[i].dict
  /\ extracted' = [extracted EXCEPT !["text_sections"] = <<>>]
  /\ pc' = "sections_returned"
  /\ UNCHANGED <<db, tx, connection, aborted, k, i, doc, paper_metadata,
                 generated_id, exists, overwrite_choices, choice, result, log,
                 pre, faults, runs, call, reply, config, retry_count>>

\* "return text_sections".
ExtractSectionsReturn ==
  /\ pc = "sections_loop"
  /\ i > Len(reply)
  /\ pc' = "sections_returned"
  /\ UNCHANGED <<db, tx, connection, aborted, k, i, doc, paper_metadata,
                 generated_id, exists, overwrite_choices, choice, extracted,
                 result, log, pre, faults, runs, call, reply, config, retry_count>>

NextSections ==
  \/ ExtractSectionsEmpty
  \/ ExtractSectionsStart
  \/ ExtractSectionsStep
  \/ ExtractSectionsRaises
  \/ ExtractSectionsReturn

SpecSections == InitSections /\ [][NextSections]_vars

\* ---------------------------------------------------------------- DatabaseConnection.connect
\* int(max_retries or os.getenv("POSTGRES_MAX_RETRIES", 5)) and
\* int(retry_delay or os.getenv("POSTGRES_RETRY_DELAY", 2)): an argument of 0
\* gives way to the environment, whose value may be 0.
Configs ==
  {[max_retries |-> m, retry_delay |-> d] : m \in 0 .. MaxRetries, d \in {0, 2}}

InitConnect ==
  /\ db = EmptyStore
  /\ tx = EmptyStore
  /\ connection = "none"
  /\ aborted = FALSE
  /\ pc = "connect_loop"
  /\ k = 0
  /\ i = 0
  /\ doc = [file |-> 0, content |-> 0]
  /\ paper_metadata = NoMetadata
  /\ generated_id = 0
  /\ exists = FALSE
  /\ overwrite_choices = ProcessEverything
  /\ choice = -1
  /\ extracted = EmptyExtracted
  /\ result = "none"
  /\ log = <<>>
  /\ pre = EmptyStore
  /\ faults = 0
  /\ runs = 0
  /\ call = NoCall
  /\ reply = <<>>
  /\ config \in Configs
  /\ retry_count = 0

\* "if retry_count < self.max_retries" after a failed attempt: sleep and try
\* again, however many attempts are left.
RetryingAlways(count, max) == TRUE

\* "if retry_count < self.max_retries" after a failed attempt: sleep and try
\* again, else give up.
Retrying(count, max) == count < max

\* psycopg2.connect succeeds: "return self.connection".
ConnectAttemptSucceeds ==
  /\ pc = "connect_loop"
  /\ retry_count < config.max_retries
  /\ connection' = "open"
  /\ result' = "returned"
  /\ pc' = "connect_done"
  /\ log' = Append(log, Entry("attempt", "db", 0, retry_count + 1, TRUE))
  /\ UNCHANGED <<db, tx, aborted, k, i, doc, paper_metadata, generated_id,
                 exists, overwrite_choices, choice, extracted, pre, faults,
                 runs, call, reply, config, retry_count>>

\* psycopg2.connect raises OperationalError.
ConnectAttemptFails ==
  /\ pc = "connect_loop"
  /\ retry_count < config.max_retries
  /\ retry_count' = retry_count + 1
  /\ log' = Append(log, Entry("attempt", "db", 0, retry_count + 1, FALSE))
  /\ IF Retrying(retry_count', config.max_retries)
       THEN pc' = "connect_sleep" /\ result' = result
       ELSE pc' = "connect_done" /\ result' = "Database connection failed"
  /\ UNCHANGED <<db, tx, connection, aborted, k, i, doc, paper_metadata,
                 generated_id, exists, overwrite_choices, choice, extracted,
                 pre, faults, runs, call, reply, config>>

\* psycopg2.connect raises an exception that is no OperationalError: it is
\* not caught.
ConnectAttemptRaises ==
  /\ pc = "connect_loop"
  /\ retry_count < config.max_retries
  /\ result' = "propagated"
  /\ pc' = "connect_done"
  /\ log' = Append(log, Entry("attempt", "db", 0, retry_count + 1, FALSE))
  /\ UNCHANGED <<db, tx, connection, aborted, k, i, doc, paper_metadata,
                 generated_id, exists, overwrite_choices, choice, extracted,
                 pre, faults, runs, call, reply, config, retry_count>>

\* time.sleep(self.retry_delay).
ConnectSleep ==
  /\ pc = "connect_sleep"
  /\ pc' = "connect_loop"
  /\ log' = Append(log, Entry("sleep", "db", 0, config.retry_delay, TRUE))
  /\ UNCHANGED <<db, tx, connection, aborted, k, i, doc, paper_metadata,
                 generated_id, exists, overwrite_choices, choice, extracted,
                 result, pre, faults, runs, call, reply, config, retry_count>>

\* The while condition is false: the raise after the loop.
ConnectLoopExit ==
  /\ pc = "connect_loop"
  /\ ~(retry_count < config.max_retries)
  /\ result' = "Unexpected error in connection retry loop"
  /\ pc' = "connect_done"
  /\ UNCHANGED <<db, tx, connection, aborted, k, i, doc, paper_metadata,
                 generated_id, exists, overwrite_choices, choice, extracted,
                 log, pre, faults, runs, call, reply, config, retry_count>>

NextConnect ==
  \/ ConnectAttemptSucceeds
  \/ ConnectAttemptFails
  \/ ConnectAttemptRaises
  \/ ConnectSleep
  \/ ConnectLoopExit

SpecConnect == InitConnect /\ [][NextConnect]_vars

\* ---------------------------------------------------------------- reading the log
Range(seq) == {seq[j] : j \in 1 .. Len(seq)}

Issued(ops, kinds) == {j \in LogIndex : log[j].op \in ops /\ log[j].kind \in kinds}

\* Some delete or insert of a section, table or image failed in this run.
ChildWriteFailed == \E j \in Issued({"delete", "insert"}, Kinds) : ~log[j].ok

\* No database operation of this run failed.
NoDbFailure == \A j \in LogIndex : log[j].op \in DbOps \cup WriteOps => log[j].ok

\* The rows of a kind the committed store holds now and did not hold when
\* the run started.
Written(kind) == db[kind] \ pre[kind]

SeedReached == db = SeedStore /\ pc = "done"

SeedOneReached == db = SeedStoreOne /\ pc = "done"

\* ---------------------------------------------------------------- claims
\* The save of some table failed in this run.
TableSaveFailed == \E j \in Issued({"insert"}, {"tables"}) : ~log[j].ok

\* C1. Atomicity of Persist: when process_paper has returned from a run for
\* a new paper in which the save of a table failed, the committed store
\* holds no section, table or image row written by that run.
Claim_C1 ==
  (pc = "done" /\ ~exists /\ TableSaveFailed)
    => \A kind \in Kinds : Written(kind) = {}

\* C2. A failed delete or insert of a section, table or image between
\* Resolve and Commit makes process_paper roll back and return False.
Claim_C2 ==
  (pc = "done" /\ ChildWriteFailed)
    => (result = "false" /\ Issued({"rollback"}, {"db"}) # {})

\* C3. A run of process_paper that has returned False leaves the committed
\* paper, section, table and image rows exactly as they were when it started.
Thm_C3 == (pc = "done" /\ result = "false") => db = pre

\* The early "return False": the deletes of Step 6 were done on stored rows,
\* then the metadata update failed, and the run has ended.
Witness_C3 ==
  /\ pc = "done"
  /\ result = "false"
  /\ \E j \in Issued({"delete"}, Kinds) :
       log[j].ok /\ RowsOf(pre, log[j].kind, log[j].pid) # {}
  /\ \E j \in Issued({"update"}, {"metadata"}) : ~log[j].ok

\* The paper row stored under an id.
PaperOf(store, pid) == {p \in store.paper_metadata : p.id = pid}

\* _check_paper_exists has returned in this run.
Resolved == \E j \in Issued(ReadOps, {"metadata"}) : log[j].ok

\* C4. Selective overwrite isolation: when a run that matched a stored paper
\* has ended with every database statement done, the rows of each kind the
\* operator did not select are, under that paper, the rows stored before the
\* run, and the rows of each selected kind are exactly the newly saved ones.
Thm_C4 ==
  (pc = "done" /\ exists /\ result = "true" /\ NoDbFailure)
    => LET pid == paper_metadata.id
       IN  /\ \A kind \in Kinds :
                RowsOf(db, kind, pid) =
                  IF overwrite_choices[kind] THEN Range(extracted[kind])
                                             ELSE RowsOf(pre, kind, pid)
           /\ PaperOf(db, pid) =
                IF overwrite_choices.metadata THEN {PaperRow(paper_metadata)}
                                              ELSE PaperOf(pre, pid)

\* Only tables were selected on a paper that had sections and tables, and
\* the tables stored now are new ones.
Witness_C4 ==
  /\ pc = "done"
  /\ exists
  /\ result = "true"
  /\ NoDbFailure
  /\ choice = 3
  /\ RowsOf(pre, "text_sections", paper_metadata.id) # {}
  /\ RowsOf(pre, "tables", paper_metadata.id) # {}
  /\ RowsOf(db, "tables", paper_metadata.id) # {}
  /\ RowsOf(db, "tables", paper_metadata.id)
       \cap RowsOf(pre, "tables", paper_metadata.id) = {}

\* The stored papers that carry the extracted DOI.
StoredWithDoi ==
  IF DoiLookup(paper_metadata.doi) THEN find_by_doi(pre, paper_metadata.doi) ELSE {}

\* C5. Duplicate detection: a stored paper with the extracted DOI is the
\* reported match whatever the titles are, and then no title lookup is made;
\* the title lookup is made only without a DOI or with a DOI no stored paper
\* has, and it matches the exact title only.
Thm_C5 ==
  Resolved =>
    /\ StoredWithDoi # {} =>
         /\ exists
         /\ \E p \in StoredWithDoi : p.id = paper_metadata.id
         /\ Issued({"select_title"}, {"metadata"}) = {}
    /\ StoredWithDoi = {} =>
         /\ Issued({"select_title"}, {"metadata"}) # {}
         /\ exists <=> find_by_title(pre, paper_metadata.title) # {}
         /\ exists => \E p \in pre.paper_metadata :
                        p.id = paper_metadata.id /\ p.title = paper_metadata.title

\* The DOI named one stored paper while another stored paper had the
\* extracted title.
Witness_C5 ==
  /\ Resolved
  /\ exists
  /\ StoredWithDoi # {}
  /\ \E q \in find_by_title(pre, paper_metadata.title) :
       q \notin StoredWithDoi /\ q.id # paper_metadata.id

\* The id extract_metadata returned in this run.
ExtractedIds ==
  {log[j].pid : j \in {n \in Issued({"extract"}, {"metadata"}) : log[n].ok}}

\* The ids of the stored papers the lookup of this run could report.
StoredIds ==
  {p.id : p \in ExistingPaper(pre, paper_metadata.doi, paper_metadata.title)}

\* C6. After a match the metadata object carries the stored paper's id, and
\* every delete, metadata update and child insert of the run is made under
\* the stored id.
Thm_C6 ==
  exists =>
    /\ paper_metadata.id \in StoredIds
    /\ \A j \in Issued(WriteOps, AllKinds) : log[j].pid = paper_metadata.id
    /\ \A kind \in Kinds : \A r \in Range(extracted[kind]) :
         r.paper_id = paper_metadata.id

\* The stored id differs from the id generated from the content read and
\* from the extracted one, and the run deleted, updated and inserted.
Witness_C6 ==
  /\ pc = "done"
  /\ exists
  /\ generated_id # paper_metadata.id
  /\ paper_metadata.id \notin ExtractedIds
  /\ Issued({"delete"}, Kinds) # {}
  /\ Issued({"update"}, {"metadata"}) # {}
  /\ Issued({"insert"}, Kinds) # {}

\* The committed store held, when the run started, a paper with the DOI and
\* the title this run extracted.
StoredSameKeys ==
  \E p \in pre.paper_metadata :
    p.doi = paper_metadata.doi /\ p.title = paper_metadata.title

\* C7. Idempotent re-ingestion: a run on a document whose extracted DOI and
\* title are stored finds the match, and with choice 1 (keep everything) it
\* returns True, issues no insert, update or delete and leaves the number of
\* rows of every table as it was.
Thm_C7 ==
  /\ (Resolved /\ StoredSameKeys) => exists
  /\ (pc = "done" /\ exists /\ choice = 1) =>
       /\ result = "true"
       /\ Issued(WriteOps, AllKinds) = {}
       /\ \A t \in DOMAIN db : Cardinality(db[t]) = Cardinality(pre[t])

\* The second run read the document the stored paper came from, extracted
\* the same id, DOI and title, and the operator chose 1.
Witness_C7 ==
  /\ pc = "done"
  /\ exists
  /\ choice = 1
  /\ PaperRow(paper_metadata) \in pre.paper_metadata
  /\ generated_id = paper_metadata.id
  /\ \E kind \in Kinds : RowsOf(pre, kind, paper_metadata.id) # {}

\* The file could not be loaded, or extract_metadata returned nothing.
NoMetadataObtained ==
  \E j \in LogIndex :
    /\ ~log[j].ok
    /\ \/ log[j].op = "load"
       \/ log[j].op = "extract" /\ log[j].kind = "metadata"

\* C8. When the file cannot be loaded or metadata extraction returns
\* nothing, process_paper returns False without opening a connection: the
\* run issues no database read or write.
Thm_C8 ==
  NoMetadataObtained =>
    /\ result = "false"
    /\ pc \in {"finally", "done"}
    /\ connection = "none"
    /\ \A j \in LogIndex : log[j].op \notin DbOps
    /\ db = pre

\* Metadata extraction failed in a run that started on a store holding a
\* paper, and the run has ended.
Witness_C8 ==
  /\ pc = "done"
  /\ pre.paper_metadata # {}
  /\ \E j \in Issued({"extract"}, {"metadata"}) : ~log[j].ok

\* The kinds whose extraction returned the empty list in this run.
EmptyKinds == {log[j].kind : j \in {n \in Issued({"extract"}, Kinds) : ~log[n].ok}}

\* C9. In a run for a new paper with every database statement done, a kind
\* whose extraction failed or found nothing contributes no row, the metadata
\* row and the rows of the other kinds are committed, and process_paper
\* returns True.
Thm_C9 ==
  (pc = "done" /\ ~exists /\ EmptyKinds # {} /\ NoDbFailure)
    => /\ result = "true"
       /\ PaperOf(db, paper_metadata.id) = {PaperRow(paper_metadata)}
       /\ \A kind \in EmptyKinds : RowsOf(db, kind, paper_metadata.id) = {}
       /\ \A kind \in Kinds :
            RowsOf(db, kind, paper_metadata.id) = Range(extracted[kind])

\* The section extraction returned nothing and the tables of the new paper
\* are committed.
Witness_C9 ==
  /\ pc = "done"
  /\ ~exists
  /\ NoDbFailure
  /\ "text_sections" \in EmptyKinds
  /\ Cardinality(RowsOf(db, "tables", paper_metadata.id)) = MaxItems
  /\ PaperRow(paper_metadata) \in db.paper_metadata

\* The place of a kind in "metadata, sections, tables, images".
Rank(kind) ==
  CASE kind = "metadata" -> 0
    [] kind = "text_sections" -> 1
    [] kind = "tables" -> 2
    [] kind = "images" -> 3

\* C10. For a new paper the inserts follow the order metadata, sections,
\* tables, images, every child insert comes after the successful insert of
\* its paper row, and a run that reaches the commit has extracted every
\* kind; for a matched paper only the selected kinds are extracted and saved.
Thm_C10 ==
  /\ ~exists =>
       /\ \A a, b \in Issued({"insert"}, AllKinds) :
            a < b => Rank(log[a].kind) <= Rank(log[b].kind)
       /\ \A b \in Issued({"insert"}, Kinds) :
            \E a \in Issued({"insert"}, {"metadata"}) :
              a < b /\ log[a].ok /\ log[a].pid = log[b].pid
       /\ Issued({"commit"}, {"db"}) # {} =>
            \A kind \in Kinds : Issued({"extract"}, {kind}) # {}
  /\ exists =>
       /\ \A j \in Issued({"insert", "update"}, AllKinds) :
            overwrite_choices[log[j].kind]
       /\ \A j \in Issued({"extract"}, Kinds) : overwrite_choices[log[j].kind]

\* A run for a new paper that inserted the paper row, sections, tables and
\* images and returned True.
Witness_C10 ==
  /\ pc = "done"
  /\ ~exists
  /\ result = "true"
  /\ \A kind \in AllKinds : \E j \in Issued({"insert"}, {kind}) : log[j].ok

\* C11. Phase order of one run: every insert, update and delete comes after
\* the lookups of duplicate resolution, every delete comes before every
\* insert and update, the commit is issued at most once, after the last
\* write, as the last operation and on the open connection, and a run in
\* which the operator kept everything issues no write and no commit.
Thm_C11 ==
  LET writes == Issued(WriteOps, AllKinds)
      commits == Issued({"commit"}, {"db"})
  IN  /\ writes # {} => Resolved
      /\ \A w \in writes : \A r \in Issued(ReadOps, {"metadata"}) : r < w
      /\ \A d \in Issued({"delete"}, Kinds) :
           \A n \in Issued({"insert", "update"}, AllKinds) : d < n
      /\ Cardinality(commits) <= 1
      /\ \A c \in commits :
           /\ c = Len(log)
           /\ \A w \in writes : w < c
           /\ pc \in {"finally", "done"}
           /\ pc = "finally" => connection = "open"
      /\ (exists /\ \A kind \in AllKinds : ~overwrite_choices[kind]) =>
           (writes = {} /\ commits = {})

\* A run on a matched paper went through all four phases: lookups, deletes,
\* the metadata update, inserts and the commit.
Witness_C11 ==
  /\ pc = "done"
  /\ exists
  /\ result = "true"
  /\ Issued({"delete"}, Kinds) # {}
  /\ Issued({"update"}, {"metadata"}) # {}
  /\ Issued({"insert"}, Kinds) # {}
  /\ Issued({"commit"}, {"db"}) # {}

\* The rows of a kind the transaction holds under a primary-key id.
WithId(store, kind, id) == {r \in store[kind] : r.id = id}

\* C12. Saves of sections, tables and images are upserts: a save of an
\* entity whose id is already stored, met by no outside failure, returns
\* True and leaves exactly one row with that id, holding the new values.
Claim_C12 ==
  [][ LET kind == PersistOrder[k]
          row == extracted[kind][i]
      IN  (/\ pc = "save"
           /\ ~aborted
           /\ faults' = faults
           /\ WithId(tx, kind, row.id) # {})
            => (/\ log'[Len(log')].ok
                /\ WithId(tx', kind, row.id) = {row}) ]_vars

\* C13. A save of a paper or of an entity whose id is already stored for
\* another paper returns an error and leaves the stored row, its paper_id
\* included, as it was.
Claim_C13 ==
  [][ /\ LET kind == PersistOrder[k]
             row == extracted[kind][i]
         IN  (/\ pc = "save"
              /\ \E r \in WithId(tx, kind, row.id) : r.paper_id # row.paper_id)
               => (/\ ~log'[Len(log')].ok
                   /\ WithId(tx', kind, row.id) = WithId(tx, kind, row.id))
      /\ (/\ pc = "save_metadata"
          /\ ~exists
          /\ PaperOf(tx, paper_metadata.id) # {})
           => (/\ ~log'[Len(log')].ok
               /\ PaperOf(tx', paper_metadata.id) = PaperOf(tx, paper_metadata.id)) ]_vars

\* The kinds an overwrite decision selects.
Selected(oc) == {kind \in AllKinds : oc[kind]}

\* C14. At the decision point reached with a matching stored paper, every
\* subset of {metadata, sections, tables, images} is the selection of some
\* answer the operator can give (the empty one meaning keep all).
Claim_C14 ==
  (/\ pc = "check_exists"
   /\ ExistingPaper(tx, paper_metadata.doi, paper_metadata.title) # {})
    => \A S \in SUBSET AllKinds :
         \E c \in MenuChoices \cup {KeyboardInterrupt} :
           Selected(OverwriteChoicesFor(c)) = S

\* The ids of the papers a store holds.
PaperIds(store) == {p.id : p \in store.paper_metadata}

\* C15. No step of process_paper or of process_images_only removes a paper
\* id from the committed store, and a metadata overwrite leaves the
\* transaction with the same paper ids, one row per id, the row of the
\* matched paper now holding the new values.
Thm_C15 ==
  [][ /\ PaperIds(db) \subseteq PaperIds(db')
      /\ (/\ pc = "save_metadata"
          /\ exists
          /\ log' # log
          /\ log'[Len(log')].ok)
           => (/\ PaperIds(tx') = PaperIds(tx)
               /\ Cardinality(tx'.paper_metadata) = Cardinality(tx.paper_metadata)
               /\ PaperOf(tx', paper_metadata.id) = {PaperRow(paper_metadata)}) ]_vars

\* A committed metadata overwrite: the row of the matched paper changed and
\* the stored ids are those of before.
Witness_C15 ==
  /\ pc = "done"
  /\ exists
  /\ \E j \in Issued({"update"}, {"metadata"}) : log[j].ok
  /\ PaperOf(db, paper_metadata.id) # PaperOf(pre, paper_metadata.id)
  /\ PaperIds(db) = PaperIds(pre)
  /\ PaperIds(db) # {}

\* C16. A KeyboardInterrupt at the overwrite prompt of process_paper is
\* handled as keep-all: the run deletes, inserts and updates nothing, commits
\* nothing, changes no row inside or outside its transaction, and returns
\* True.
Thm_C16 ==
  (exists /\ choice = KeyboardInterrupt /\ log[1].op = "load") =>
    /\ pc \in {"finally", "done"}
    /\ result = "true"
    /\ Issued(WriteOps, AllKinds) = {}
    /\ Issued({"commit"}, {"db"}) = {}
    /\ tx = pre
    /\ db = pre

\* The operator cancelled at the prompt for a stored paper that has rows,
\* and the run has ended.
Witness_C16 ==
  /\ pc = "done"
  /\ exists
  /\ choice = KeyboardInterrupt
  /\ log[1].op = "load"
  /\ \E kind \in Kinds : RowsOf(db, kind, paper_metadata.id) # {}

\* C17. The counts of sections, tables and images reported at the end of a
\* successful run of process_paper equal the numbers of rows of each kind
\* the run saved.
Claim_C17 ==
  (/\ pc = "done"
   /\ result = "true"
   /\ log[1].op = "load"
   /\ Issued({"commit"}, {"db"}) # {})
    => \A kind \in Kinds : ReportedCount(kind) = SavedCount(kind)

\* The entities of the batch for which a save was issued, in order.
Attempted(kind) ==
  [j \in 1 .. Cardinality(Issued({"insert"}, {kind})) |->
     log[CHOOSE n \in Issued({"insert"}, {kind}) :
           Cardinality({m \in Issued({"insert"}, {kind}) : m <= n}) = j].number]

InRange63(id) == Len(id) = 4 /\ \A j \in 1 .. 4 : id[j] \in 0 .. 65535 /\ id[1] < 32768

\* C19: every identifier returned by generate_content_id, by generate_64bit_id
\* and by generate_hierarchical_id lies in [0, 2^63).
Claim_C19 ==
  (/\ call.done
   /\ call.fn \in {"generate_content_id", "generate_64bit_id",
                   "generate_hierarchical_id"})
    => InRange63(call.value)

\* C20 as stated: for the paper ID and the sequence of a call of
\* generate_hierarchical_id, every other element type, known or not, gets a
\* different identifier.
Claim_C20 ==
  (call.done /\ call.fn = "generate_hierarchical_id")
    => \A t \in ElementTypes \ {call.element_type} :
         generate_hierarchical_id(call.paper_id, t, call.sequence) # call.value

\* C20: for the paper ID and the sequence of a call of generate_hierarchical_id,
\* every other element type gets a different identifier unless that type and
\* the type of the call are both unknown to TYPE_CODES.
Thm_C20 ==
  (call.done /\ call.fn = "generate_hierarchical_id")
    => \A t \in ElementTypes \ {call.element_type} :
         (t \in DOMAIN TYPE_CODES \/ call.element_type \in DOMAIN TYPE_CODES)
           => generate_hierarchical_id(call.paper_id, t, call.sequence)
                # call.value

\* An identifier was returned for an unknown element type, a paper ID with bit
\* 31 set and a sequence that wraps.
Witness_C20 ==
  /\ call.done
  /\ call.fn = "generate_hierarchical_id"
  /\ call.element_type = "chart"
  /\ call.paper_id = <<0, 0, 32768, 1>>
  /\ call.sequence = 65537
  /\ call.value = <<32768, 1, 65535, 1>>

\* The two contents agree on their first 1000 characters.
AgreeOnPrefix(c, d) ==
  LET Cut(x) == IF Len(x) <= 1000 THEN x ELSE SubSeq(x, 1, 1000)
  IN  Cut(c) = Cut(d)

\* C21: the paper ID returned for a source file and a content is the ID of
\* every content that agrees with it on the first 1000 characters, for the
\* same source file.
Thm_C21 ==
  (call.done /\ call.fn = "generate_64bit_id")
    => \A c \in IdContents :
         AgreeOnPrefix(c, call.content)
           => generate_64bit_id_of(c, call.source_file) = call.value

\* The ID of a content of 1001 characters was returned, and another content
\* with the same first 1000 characters exists.
Witness_C21 ==
  /\ call.done
  /\ call.fn = "generate_64bit_id"
  /\ Len(call.content) > 1000
  /\ \E c \in IdContents \ {call.content} : AgreeOnPrefix(c, call.content)

\* C22: the section numbers of the list extract_text_sections returns are
\* exactly 1 .. n, n the length of the list.
Claim_C22 ==
  pc = "sections_returned"
    => LET list == extracted["text_sections"]
       IN  \A j \in 1 .. Len(list) : list[j].number = j

\* C23: every ID the validator of PaperMetadata.id accepts lies in [0, 2^63),
\* the non-negative range of the BIGINT column it is stored in.
Claim_C23 ==
  (call.done /\ call.fn = "validate_id_size" /\ ~call.raised)
    => FitsBigint(call.v)

\* The connection attempts and the waits of the running connect().
Attempts == Issued({"attempt"}, {"db"})

Sleeps == Issued({"sleep"}, {"db"})

Connected == \E j \in Issued({"connect"}, {"db"}) : log[j].ok

\* C25: a run of process_paper or of process_images_only that opened a
\* database connection has ended with the connection closed and
\* db_connection.connection set to None.
Thm_C25 == (pc = "done" /\ Connected) => connection = "none"

\* A run of process_images_only that opened a connection was ended by an
\* exception no handler caught.
Witness_C25 ==
  /\ pc = "done"
  /\ Connected
  /\ log[1].op = "load_images_only"
  /\ result = "raised"

\* The ended run of process_images_only deleted the stored images of its
\* paper on the operator's word, and a save of a new image then failed.
OverwriteThenSaveFailed ==
  /\ pc = "done"
  /\ log # <<>>
  /\ log[1].op = "load_images_only"
  /\ Issued({"delete"}, {"images"}) # {}
  /\ \E j \in Issued({"insert"}, {"images"}) : ~log[j].ok

\* C26: after an overwrite of the images whose save failed, the run has
\* returned False without a commit and the images stored for the paper
\* before the run are the ones stored after it.
Thm_C26 ==
  OverwriteThenSaveFailed =>
    /\ result = "false"
    /\ Issued({"commit"}, {"db"}) = {}
    /\ RowsOf(db, "images", paper_metadata.id)
         = RowsOf(pre, "images", paper_metadata.id)
    /\ db = pre

\* The images deleted in the transaction of the failed run are stored.
Witness_C26 ==
  /\ OverwriteThenSaveFailed
  /\ \E j \in Issued({"delete"}, {"images"}) : log[j].ok
  /\ RowsOf(db, "images", paper_metadata.id) # {}

\* C27: the PaperMetadata object extract_metadata has just returned carries
\* the ID generate_id computed from the content and the source file.
Claim_C27 ==
  (pc = "connect" /\ log # <<>> /\ log[Len(log)].op = "extract"
   /\ log[Len(log)].kind = "metadata")
    => paper_metadata.id = generated_id

\* No two papers of the store carry the same DOI.
DoiUnique(store) ==
  \A p, q \in store.paper_metadata :
    (p.doi # NoDoi /\ p.doi = q.doi) => p = q

\* C28: no two stored papers have the same non-empty DOI, in the committed
\* rows and in the rows of the open transaction.
Thm_C28 == DoiUnique(db) /\ DoiUnique(tx)

\* The metadata of a paper matched by its DOI was overwritten and committed
\* while another stored paper carried the extracted title.
Witness_C28 ==
  /\ pc = "done"
  /\ result = "true"
  /\ exists
  /\ overwrite_choices["metadata"]
  /\ \E j \in Issued({"update"}, {"metadata"}) : log[j].ok
  /\ Issued({"commit"}, {"db"}) # {}
  /\ find_by_doi(pre, paper_metadata.doi) # {}
  /\ find_by_title(pre, paper_metadata.title)
       \ find_by_doi(pre, paper_metadata.doi) # {}
  /\ Cardinality(db.paper_metadata) = 2

\* The kinds of an existing paper the operator selected for overwrite and
\* whose extraction then returned nothing.
OverwrittenWithNothing ==
  {kind \in Kinds :
     /\ exists
     /\ overwrite_choices[kind]
     /\ \E j \in Issued({"extract"}, {kind}) : ~log[j].ok}

\* C29: after a run of process_paper on an existing paper, the rows of a kind
\* selected for overwrite whose extraction returned nothing are those stored
\* before the run.
Claim_C29 ==
  (pc = "done" /\ log # <<>> /\ log[1].op = "load")
    => \A kind \in OverwrittenWithNothing :
         RowsOf(pre, kind, paper_metadata.id) \subseteq db[kind]

\* C30: for the element type and the sequence of a call of
\* generate_hierarchical_id, every other paper ID of [0, 2^63) gets a
\* different identifier.
Claim_C30 ==
  (call.done /\ call.fn = "generate_hierarchical_id" /\ InRange63(call.paper_id))
    => \A p \in IdPaperIds \ {call.paper_id} :
         InRange63(p)
           => generate_hierarchical_id(p, call.element_type, call.sequence)
                # call.value

====
